---- MODULE Spec2Model ----
(***************************************************************************)
(* chatcli: the conversation log store (log.py), the commands that read    *)
(* and append to it (cli.py) and the streaming accumulator                 *)
(* (conversation.py), as state machines.                                   *)
(*                                                                         *)
(* Python values are tagged records, one shape per kind of field:          *)
(*   list fields   (messages, tags, plugins)     [t, l]  l a sequence      *)
(*   dict fields   (usage, completion, response) [t, d]  d a set of        *)
(*                                                <<key, int>> pairs       *)
(*   string fields (model, version, timestamp)   [t, s]                    *)
(* t is "absent" (the key is missing from the JSON object), "null", or the *)
(* JSON type: "list", "dict", "str" (a non-empty string where another type *)
(* is expected) and "emptystr" (the empty string: falsy, and neither a     *)
(* list nor a mapping). Text is a sequence of characters.                  *)
(***************************************************************************)
EXTENDS Integers, Sequences, FiniteSets, TLC

VARIABLES
    log,        \* the log file: [exists, lines]
    backup,     \* the .log.bak.0_3 file: [exists, lines]
    last,       \* how the last command ended, and which it was if it ended well
    base,       \* entries in the log when it was created or migrated
    appended    \* arguments of the write_log calls since then, in order

logVars == <<log, backup, last, base, appended>>

VARIABLES
    consumed,               \* the fragments the loop has taken from the stream
    accumulated_content,    \* accumulate_streaming_response: accumulated_content
    stream_completion,      \* accumulate_streaming_response: completion
    called,                 \* the arguments of the calls of callback, in order
    result                  \* how accumulate_streaming_response ended, and its value

accVars == <<consumed, accumulated_content, stream_completion, called, result>>

VARIABLES
    answering,  \* add_answer: where its loop is, and its conversation
    objects,    \* Conversation objects in memory, and the lists they refer to
    lookup,     \* find_log: the directories, where it started, what it gave
    invocations \* two processes on one log file: where each is, what it read

restVars == <<answering, objects, lookup, invocations>>

----------------------------------------------------------------------------
(* Bounds of the model *)

MaxLog == 5         \* lines in the log file
MaxMsgs == 4        \* messages in one conversation
MaxLegacy == 2      \* lines of a legacy log the model starts from
MaxChunks == 3      \* fragments of one streamed response

----------------------------------------------------------------------------
(* Python values *)

List(l) == [t |-> "list", l |-> l]
AbsentL == [t |-> "absent", l |-> <<>>]
StrL == [t |-> "str", l |-> <<>>]

Dict(d) == [t |-> "dict", d |-> d]
AbsentD == [t |-> "absent", d |-> {}]
NullD == [t |-> "null", d |-> {}]
StrD == [t |-> "str", d |-> {}]
EmptyStrD == [t |-> "emptystr", d |-> {}]

Str(s) == [t |-> "str", s |-> s]
AbsentS == [t |-> "absent", s |-> ""]
NullS == [t |-> "null", s |-> ""]

\* A timestamp is an ISO-8601 string; s is the instant it denotes.
Iso(n) == [t |-> "str", s |-> n]
AbsentT == [t |-> "absent", s |-> 0]
NullT == [t |-> "null", s |-> 0]

\* bool(x) of Python
TruthyL(x) == x.t = "str" \/ (x.t = "list" /\ Len(x.l) > 0)
TruthyD(x) == x.t = "str" \/ (x.t = "dict" /\ x.d # {})
TruthyS(x) == x.t = "str"

\* dict.get(key): None when the key is missing
GetD(x) == IF x.t = "absent" THEN NullD ELSE x
GetS(x) == IF x.t = "absent" THEN NullS ELSE x
GetT(x) == IF x.t = "absent" THEN NullT ELSE x
\* dict.get(key, [])
GetListOr(x) == IF x.t = "absent" THEN List(<<>>) ELSE x

Has(d, k) == \E p \in d : p[1] = k
Get(d, k) == (CHOOSE p \in d : p[1] = k)[2]
Del(d, k) == {p \in d : p[1] # k}
Put(d, k, v) == Del(d, k) \cup {<<k, v>>}

\* `needle in haystack` on strings
IsSubstr(needle, hay) ==
    \E i \in 0..(Len(hay) - Len(needle)) :
        \A j \in 1..Len(needle) : hay[i + j] = needle[j]

\* `x in list`
InList(x, l) == \E i \in 1..Len(l) : l[i] = x

Reverse(s) == [i \in 1..Len(s) |-> s[Len(s) + 1 - i]]

\* v bound to a name in F: a value computed once and used several times
Let(v, F(_)) == F(v)

IsPrefix(s, u) == Len(s) <= Len(u) /\ SubSeq(u, 1, Len(s)) = s

----------------------------------------------------------------------------
(* Lines of the log file: JSON objects *)

\* A JSON object with none of the keys the program reads.
EmptyObject ==
    [version |-> AbsentS, messages |-> AbsentL, completion |-> AbsentD,
     response |-> AbsentD, usage |-> AbsentD, tags |-> AbsentL,
     timestamp |-> AbsentT, plugins |-> AbsentL, model |-> AbsentS]

LOG_FILE_VERSION == "0.4"

\* json.dumps({"version": LOG_FILE_VERSION})
VersionHeader == [EmptyObject EXCEPT !.version = Str(LOG_FILE_VERSION)]

NoFile == [exists |-> FALSE, lines |-> <<>>]
File(lines) == [exists |-> TRUE, lines |-> lines]

----------------------------------------------------------------------------
(* conversation.py: Conversation *)

\* Conversation.__init__
Conversation(data) ==
    [messages |-> GetListOr(data.messages),
     plugins |-> GetListOr(data.plugins),
     tags |-> GetListOr(data.tags),
     model |-> GetS(data.model),
     usage |-> GetD(data.usage),
     completion |-> GetD(data.completion),
     timestamp |-> GetT(data.timestamp)]

Message(role, content) == [role |-> role, content |-> content]

\* Conversation.append
ConvAppend(c, role, content) ==
    [c EXCEPT !.messages = List(Append(c.messages.l, Message(role, content)))]

\* Conversation.__contains__: the search term in the question message
Contains(c, search_term) ==
    LET n == Len(c.messages.l)
        question == IF n > 1 THEN c.messages.l[n - 1].content
                    ELSE c.messages.l[n].content
    IN  IsSubstr(search_term, question)

ConvAddTagOnly(c, tag) == [c EXCEPT !.tags = List(Append(c.tags.l, tag))]

\* Conversation.add_tag
ConvAddTag(c, tag) ==
    [c EXCEPT !.tags = List(Append(SelectSeq(c.tags.l, LAMBDA t : t # tag), tag))]

\* is_personality: tag.startswith("^")
is_personality(tag) == Len(tag) > 0 /\ tag[1] = "^"

clone_keeping_completion(c, model) ==
    LET n == Len(c.tags.l)
    IN  [c EXCEPT
            !.tags = IF TruthyL(c.tags) /\ ~is_personality(c.tags.l[n])
                     THEN List(<<c.tags.l[n]>>) ELSE List(<<>>),
            !.model = IF TruthyS(model) THEN model ELSE c.model]

\* Conversation.clone(model=model); model is NullS when not given
clone(c, model) ==
    LET n == Len(c.tags.l)
    IN  [c EXCEPT
            !.tags = IF TruthyL(c.tags) /\ ~is_personality(c.tags.l[n])
                     THEN List(<<c.tags.l[n]>>) ELSE List(<<>>),
            !.completion = NullD,
            !.model = IF TruthyS(model) THEN model ELSE c.model]

\* The token count of the request text of completion_usage: the tokenizer is
\* a library; one token per character of content and one per message stand
\* for len(encoding.encode(request_text)).
RECURSIVE RequestTokens(_)
RequestTokens(messages) ==
    IF messages = <<>> THEN 0
    ELSE 1 + Len(Head(messages).content) + RequestTokens(Tail(messages))

\* completion_usage, on a completion that carries no usage
completion_usage(request_messages, content) ==
    Dict({<<"prompt_tokens", RequestTokens(request_messages)>>,
          <<"completion_tokens", Len(content)>>,
          <<"total_tokens", RequestTokens(request_messages) + Len(content)>>})

\* Completion.to_dict() of a response [content, created]: its choices, and
\* created when the response carries one (created >= 0).
CompletionDict(response) ==
    Dict({<<"choices", 1>>}
         \cup (IF response.created >= 0 THEN {<<"created", response.created>>}
               ELSE {}))

complete_counting_reply(c, response) ==
    [c EXCEPT
        !.messages = List(Append(c.messages.l, Message("assistant", response.content))),
        !.completion = CompletionDict(response),
        !.usage = completion_usage(Append(c.messages.l,
                                          Message("assistant", response.content)),
                                   response.content)]

\* Conversation.complete, given the response the request returns
complete(c, response) ==
    [c EXCEPT
        !.messages = List(Append(c.messages.l, Message("assistant", response.content))),
        !.completion = CompletionDict(response),
        !.usage = completion_usage(c.messages.l, response.content)]

----------------------------------------------------------------------------
(* log.py *)

\* The line write_log appends: json.dumps of the snapshot.
LogEntry(conversation, usage, completion, now) ==
    [EmptyObject EXCEPT
        !.messages = conversation.messages,
        !.completion = IF TruthyD(completion) THEN completion ELSE NullD,
        !.usage = usage,
        !.tags = IF TruthyL(conversation.tags) THEN conversation.tags ELSE List(<<>>),
        !.timestamp = Iso(now),
        !.plugins = IF TruthyL(conversation.plugins) THEN conversation.plugins
                    ELSE List(<<>>),
        !.model = conversation.model]

write_log_keeping_usage(file, conversation, usage, completion, now) ==
    File(Append(file.lines,
                LogEntry(conversation,
                         IF usage = NullD THEN conversation.usage ELSE usage,
                         completion, now)))

write_log_truncating(file, conversation, usage, completion, now) ==
    File(<<LogEntry(conversation, usage, completion, now)>>)

\* write_log: open(log_file, "a") creates the file when it is missing, and
\* appends one line.
write_log(file, conversation, usage, completion, now) ==
    File(Append(file.lines, LogEntry(conversation, usage, completion, now)))

KeepRequestTokens(usage) ==
    IF TruthyD(usage) /\ usage.t = "dict" /\ Has(usage.d, "request_tokens")
    THEN Dict(Put(usage.d, "prompt_tokens", Get(usage.d, "request_tokens")))
    ELSE usage

\* `if usage and "request_tokens" in usage`: the field is renamed
RenameRequestTokens(usage) ==
    IF TruthyD(usage) /\ usage.t = "dict" /\ Has(usage.d, "request_tokens")
    THEN Dict(Del(Put(usage.d, "prompt_tokens", Get(usage.d, "request_tokens")),
                  "request_tokens"))
    ELSE usage

\* One iteration of convert_log_pre_0_4: [ok, line]. ok is FALSE when the
\* iteration raises (KeyError, AttributeError, TypeError or AssertionError).
ConvertLine(data, now) ==
    LET messages == data.messages
        usage0 == data.usage
        keyError == messages.t = "absent" \/ usage0.t = "absent"
        usage == RenameRequestTokens(usage0)
        tags == GetListOr(data.tags)
        completion == IF TruthyD(GetD(data.completion))
                      THEN data.completion
                      ELSE GetD(data.response)
        given == TruthyS(GetT(data.timestamp))
        \* completion.get on a value that is no mapping
        attrError == ~given /\ TruthyD(completion) /\ completion.t # "dict"
        \* datetime.fromtimestamp(None)
        typeError == ~given /\ TruthyD(completion) /\ completion.t = "dict"
                        /\ ~Has(completion.d, "created")
        timestamp == IF given THEN data.timestamp
                     ELSE IF TruthyD(completion) /\ completion.t = "dict"
                             /\ Has(completion.d, "created")
                          THEN Iso(Get(completion.d, "created"))
                          ELSE Iso(now)
        assertError == \/ messages.t # "list"
                       \/ tags.t # "list"
                       \/ completion.t \notin {"dict", "null"}
                       \/ usage.t \notin {"dict", "null"}
    IN  IF keyError \/ attrError \/ typeError \/ assertError
        THEN [ok |-> FALSE, line |-> data]
        ELSE [ok |-> TRUE,
              line |-> [EmptyObject EXCEPT
                            !.messages = messages,
                            !.completion = completion,
                            !.tags = tags,
                            !.usage = usage,
                            !.timestamp = timestamp,
                            !.plugins = GetListOr(data.plugins),
                            !.model = GetS(data.model)]]

\* list(convert_log_pre_0_4(filename)): [ok, lines]; one failing line fails the
\* whole list.
convert_log_pre_0_4(lines, now) ==
    Let([i \in 1..Len(lines) |-> ConvertLine(lines[i], now)],
        LAMBDA conv :
            [ok |-> \A i \in 1..Len(lines) : conv[i].ok,
             lines |-> [i \in 1..Len(lines) |-> conv[i].line]])

rewrite_log_without_header(lines) == File(lines)

\* rewrite_log: open(path, "w"), the version header, then the lines.
rewrite_log(lines) == File(<<VersionHeader>> \o lines)

\* The bundled default_log: the starter conversations of the personalities.
DefaultLog ==
    << [EmptyObject EXCEPT
            !.messages = List(<<Message("system", <<"s">>)>>),
            !.tags = List(<< <<"^", "d">> >>)],
       [EmptyObject EXCEPT
            !.messages = List(<<Message("system", <<"s">>), Message("user", <<"q">>)>>),
            !.tags = List(<< <<"^", "b">> >>)] >>

\* The loop of create_initial_log over the lines of default_log
RECURSIVE WriteDefaults(_, _, _)
WriteDefaults(file, lines, now) ==
    IF lines = <<>> THEN file
    ELSE WriteDefaults(write_log(file, Conversation(Head(lines)), NullD, NullD, now),
                       Tail(lines), now)

create_initial_log_recreating(file, reinit, now) ==
    IF ~reinit /\ file.exists THEN [ok |-> FALSE, file |-> file]
    ELSE [ok |-> TRUE,
          file |-> WriteDefaults(File(<<VersionHeader>>), DefaultLog, now)]

create_initial_log_unchecked(file, reinit, now) ==
    [ok |-> TRUE,
     file |-> WriteDefaults(IF file.exists THEN file ELSE File(<<VersionHeader>>),
                            DefaultLog, now)]

\* create_initial_log: [ok, file]; ok is FALSE when it raises FileExistsError.
create_initial_log(file, reinit, now) ==
    IF ~reinit /\ file.exists THEN [ok |-> FALSE, file |-> file]
    ELSE [ok |-> TRUE,
          file |-> WriteDefaults(IF file.exists THEN file ELSE File(<<VersionHeader>>),
                                 DefaultLog, now)]

\* The directories: 1 is the filesystem root, Parent the directory above.
Dirs == 1..4
Parent == <<0, 1, 2, 1>>

\* What a directory holds under the name CHAT_LOG: nothing, a file, or a
\* symbolic link to a file of another name in the directory target.
NoEntry == [kind |-> "none", target |-> 0]
FileEntry == [kind |-> "file", target |-> 0]
LinkEntry(target) == [kind |-> "link", target |-> target]

\* Path.parents of a path in directory d: d and the directories above it, the
\* nearest first
RECURSIVE Parents(_)
Parents(d) == IF d = 0 THEN <<>> ELSE <<d>> \o Parents(Parent[d])

\* The directory of Path(start_dir / CHAT_LOG).resolve(): resolve follows a
\* symbolic link to its target and leaves other paths, missing ones included,
\* where they are.
Resolve(entries, start_dir) ==
    IF entries[start_dir].kind = "link" THEN entries[start_dir].target
    ELSE start_dir

\* Path.exists
Exists(entries, d) == entries[d].kind # "none"

\* find_log: [kind, dir]: the path given ("given"), the CHAT_LOG of the
\* directory dir ("log"), or FileNotFoundError.
find_log(entries, start_dir, is_dir) ==
    IF ~is_dir THEN [kind |-> "given", dir |-> start_dir]
    ELSE LET parents == Parents(Resolve(entries, start_dir))
             hits == {i \in 1..Len(parents) : Exists(entries, parents[i])}
         IN  IF hits = {} THEN [kind |-> "FileNotFoundError", dir |-> 0]
             ELSE [kind |-> "log",
                   dir |-> parents[CHOOSE i \in hits : \A j \in hits : i <= j]]

conversation_log_returning_legacy(file, bak, now) ==
    IF Len(file.lines) = 0
    THEN [ok |-> FALSE, migrated |-> FALSE, file |-> file, backup |-> bak,
          convs |-> <<>>]
    ELSE IF GetS(file.lines[1].version).t = "null"
    THEN Let(convert_log_pre_0_4(file.lines, now),
             LAMBDA conv :
                IF ~conv.ok
                THEN [ok |-> FALSE, migrated |-> FALSE, file |-> file,
                      backup |-> bak, convs |-> <<>>]
                ELSE [ok |-> TRUE, migrated |-> TRUE,
                      file |-> rewrite_log(conv.lines),
                      backup |-> File(file.lines),
                      convs |-> [i \in 1..Len(file.lines) |->
                                    Conversation(file.lines[i])]])
    ELSE [ok |-> TRUE, migrated |-> FALSE, file |-> file, backup |-> bak,
          convs |-> [i \in 1..(Len(file.lines) - 1) |->
                        Conversation(file.lines[i + 1])]]

\* conversation_log on an existing file: [ok, migrated, file, backup, convs]:
\* the conversations returned, and the log and backup files as the call leaves
\* them. ok is FALSE when the call raises: on an empty file (json.loads of "")
\* and when the conversion of a legacy log raises.
conversation_log(file, bak, now) ==
    IF Len(file.lines) = 0
    THEN [ok |-> FALSE, migrated |-> FALSE, file |-> file, backup |-> bak,
          convs |-> <<>>]
    ELSE IF GetS(file.lines[1].version).t = "null"
    THEN Let(convert_log_pre_0_4(file.lines, now),
             LAMBDA conv :
                IF ~conv.ok
                THEN [ok |-> FALSE, migrated |-> FALSE, file |-> file,
                      backup |-> bak, convs |-> <<>>]
                ELSE [ok |-> TRUE, migrated |-> TRUE,
                      file |-> rewrite_log(conv.lines),
                      backup |-> File(file.lines),
                      convs |-> [i \in 1..Len(conv.lines) |->
                                    Conversation(conv.lines[i])]])
    ELSE [ok |-> TRUE, migrated |-> FALSE, file |-> file, backup |-> bak,
          convs |-> [i \in 1..(Len(file.lines) - 1) |->
                        Conversation(file.lines[i + 1])]]

\* One turn of the loop of search_conversations on the entry numbered idx:
\* "skip" (continue), "yield", or "raise" (the IndexError of __contains__ on a
\* conversation without messages).
MatchEntry(idx, conversation, offsets, search, tag) ==
    IF offsets # {} /\ idx \notin offsets THEN "skip"
    ELSE IF search # <<>> /\ Len(conversation.messages.l) = 0 THEN "raise"
    ELSE IF search # <<>> /\ ~Contains(conversation, search) THEN "skip"
    ELSE IF tag # <<>> /\ ~InList(tag, conversation.tags.l) THEN "skip"
    ELSE "yield"

NumberedOldestFirst(convs) == [i \in 1..Len(convs) |-> <<i, convs[i]>>]

\* enumerate(reversed(conversation_log(log_path)), start=1)
Numbered(convs) == [i \in 1..Len(convs) |-> <<i, Reverse(convs)[i]>>]

\* list(search_conversations(...)) over the conversations read: [ok, items],
\* items the (offset, conversation) pairs yielded.
search_conversations(convs, offsets, search, tag) ==
    LET test(p) == MatchEntry(p[1], p[2], offsets, search, tag)
    IN  [ok |-> \A i \in 1..Len(convs) : test(Numbered(convs)[i]) # "raise",
         items |-> SelectSeq(Numbered(convs), LAMBDA p : test(p) = "yield")]

\* next(search_conversations(...)): the generator runs up to its first yield:
\* [outcome, conversation], outcome "ok", "not_found" (StopIteration) or "raise".
first_conversation(convs, offsets, search, tag) ==
    LET test(i) == MatchEntry(i, Numbered(convs)[i][2], offsets, search, tag)
        hits == {i \in 1..Len(convs) : test(i) # "skip"}
        first == CHOOSE i \in hits : \A j \in hits : i <= j
    IN  IF hits = {} THEN [outcome |-> "not_found", conversation |-> Conversation(EmptyObject)]
        ELSE IF test(first) = "raise"
        THEN [outcome |-> "raise", conversation |-> Conversation(EmptyObject)]
        ELSE [outcome |-> "ok", conversation |-> Numbered(convs)[first][2]]

----------------------------------------------------------------------------
(* cli.py: the commands. Each operator is the whole handler, from the       *)
(* selection of the conversation to the last write_log, and gives           *)
(* [outcome, file, backup, migrated, wrote]: how the command ended ("ok",   *)
(* "not_found": the message and exit status 1, "exists": the Already-Exists *)
(* message and exit status 1, "raise": an uncaught exception), the log and  *)
(* backup files as it leaves them, whether its read migrated the log, and   *)
(* the arguments of its write_log calls in order.                           *)

DEFAULT_MODEL == Str("gpt-3.5-turbo-1106")
ADD_DEFAULT_MODEL == Str("gpt-3.5-turbo")

Result(outcome, file, bak, migrated, wrote) ==
    [outcome |-> outcome, file |-> file, backup |-> bak, migrated |-> migrated,
     wrote |-> wrote, completed |-> 0]

WriteArgs(c, usage, completion) ==
    [conversation |-> c, usage |-> usage, completion |-> completion]

\* get_logged_conversation: [outcome, file, backup, migrated, conversation]
get_logged_conversation(file, bak, now, offset, search, tag) ==
    Let(conversation_log(file, bak, now),
        LAMBDA read :
            Let(first_conversation(read.convs, IF offset # 0 THEN {offset} ELSE {},
                                   search, tag),
                LAMBDA found :
                    [outcome |-> IF read.ok THEN found.outcome ELSE "raise",
                     file |-> read.file, backup |-> read.backup,
                     migrated |-> read.migrated,
                     conversation |-> found.conversation]))

\* The wrapper of select_conversation. kw: offset (0: none), search and tag
\* (<<>>: none), continue_or_retry, select_personality (<<>>: none), new.
select_conversation(file, bak, now, kw) ==
    LET offset == IF kw.continue_or_retry /\ kw.offset = 0 THEN 1 ELSE kw.offset
        tag == IF kw.select_personality # <<>>
                   /\ ~(kw.tag # <<>> \/ kw.search # <<>> \/ offset # 0)
               THEN <<"^">> \o kw.select_personality ELSE kw.tag
    IN  IF kw.new /\ ~(tag # <<>> \/ kw.search # <<>> \/ offset # 0)
        THEN [outcome |-> "ok", file |-> file, backup |-> bak, migrated |-> FALSE,
              conversation |-> Conversation(EmptyObject)]
        ELSE get_logged_conversation(file, bak, now, offset, kw.search, tag)

\* A command that ends at its selection: nothing is written.
Unselected(sel) == Result(sel.outcome, sel.file, sel.backup, sel.migrated, <<>>)

\* A command that raises after its selection: nothing is written.
Raised(sel) == Result("raise", sel.file, sel.backup, sel.migrated, <<>>)

\* write_log(log_file, conversation) as the last statement of a command
Written(sel, c, now) ==
    Result("ok", write_log(sel.file, c, NullD, NullD, now), sel.backup,
           sel.migrated, <<WriteArgs(c, NullD, NullD)>>)

\* One turn of the loop of add_answer: complete, then write_log
AnswerRound(state, response, now) ==
    Let(complete(state.conversation, response),
        LAMBDA answered :
            [file |-> write_log(state.file, answered, answered.usage,
                                answered.completion, now),
             conversation |-> answered,
             wrote |-> Append(state.wrote,
                              WriteArgs(answered, answered.usage, answered.completion)),
             completed |-> state.completed + 1])

\* add_answer from state [file, conversation, wrote, completed], completed
\* the completions that returned: rounds is the sequence
\* of [response, plugin_response] of its loop; the loop ends at the first
\* empty plugin_response.
RECURSIVE add_answer(_, _, _)
add_answer(state, rounds, now) ==
    Let(AnswerRound(state, Head(rounds).response, now),
        LAMBDA done :
            IF Head(rounds).plugin_response = <<>> \/ Len(rounds) = 1
            THEN done
            ELSE add_answer([done EXCEPT !.conversation =
                                ConvAppend(done.conversation, "user",
                                           Head(rounds).plugin_response)],
                            Tail(rounds), now))

Answered(sel, done) ==
    [Result("ok", done.file, sel.backup, sel.migrated, done.wrote)
        EXCEPT !.completed = done.completed]

PopMessage(c) ==
    [c EXCEPT !.messages = List(SubSeq(c.messages.l, 1, Len(c.messages.l) - 1))]

\* The body of chat after conversation.clone(): the plugins and the model,
\* then the retry, then run_conversation with one question.
ChatBody(sel, c0, now, in) ==
    Let([c0 EXCEPT
            !.plugins = List(c0.plugins.l \o in.additional_plugins),
            !.model = IF TruthyS(in.model) THEN in.model
                      ELSE IF TruthyS(c0.model) THEN c0.model
                      ELSE DEFAULT_MODEL],
        LAMBDA c1 :
            IF in.retry /\ Len(c1.messages.l) = 0 THEN Raised(sel)
            ELSE Let(IF in.retry
                     THEN add_answer([file |-> sel.file, conversation |-> PopMessage(c1),
                                      wrote |-> <<>>, completed |-> 0], in.rounds, now)
                     ELSE [file |-> sel.file, conversation |-> c1, wrote |-> <<>>,
                           completed |-> 0],
                     LAMBDA start :
                        IF (in.retry /\ in.quick) \/ in.question = <<>>
                        THEN Answered(sel, start)
                        ELSE Answered(sel,
                                add_answer([start EXCEPT !.conversation =
                                                ConvAppend(start.conversation, "user",
                                                           in.question)],
                                           in.rounds, now))))

\* chat: in.kw the selection, in.model, in.additional_plugins, in.retry,
\* in.quick, in.question (<<>>: the prompt returns nothing), in.rounds
chat(file, bak, now, in) ==
    Let(select_conversation(file, bak, now, in.kw),
        LAMBDA sel :
            IF sel.outcome # "ok" THEN Unselected(sel)
            ELSE ChatBody(sel, clone(sel.conversation, NullS), now, in))

\* answer
answer(file, bak, now, in) ==
    Let(select_conversation(file, bak, now, in.kw),
        LAMBDA sel :
            IF sel.outcome # "ok" THEN Unselected(sel)
            ELSE Answered(sel,
                    add_answer([file |-> sel.file,
                                conversation |-> clone(sel.conversation, in.model),
                                wrote |-> <<>>, completed |-> 0], in.rounds, now)))

\* The body of add on the conversation selected
AddBody(c, in) ==
    LET n == Len(c.tags.l)
        tags_to_apply == IF n > 0 /\ ~is_personality(c.tags.l[n])
                         THEN <<c.tags.l[n]>> ELSE <<>>
    IN  ConvAppend(
            [c EXCEPT
                !.plugins = List(c.plugins.l \o in.additional_plugins),
                !.tags = List(IF in.personality # <<>>
                              THEN Append(tags_to_apply, <<"^">> \o in.personality)
                              ELSE tags_to_apply),
                !.model = IF TruthyS(in.model) THEN in.model
                          ELSE IF TruthyS(c.model) THEN c.model
                          ELSE ADD_DEFAULT_MODEL],
            in.role, in.content)

\* add
add(file, bak, now, in) ==
    Let(select_conversation(file, bak, now, in.kw),
        LAMBDA sel :
            IF sel.outcome # "ok" THEN Unselected(sel)
            ELSE Written(sel, AddBody(sel.conversation, in), now))

\* The body of edit on a conversation with messages. The personality it
\* reads from kwargs is never there (the option's name is select_personality,
\* which the wrapper pops), so no tag is added.
EditBody(c, in) ==
    LET n == Len(c.messages.l)
        c1 == IF in.prompt
              THEN [c EXCEPT !.messages =
                        List([c.messages.l EXCEPT ![n].content = in.content])]
              ELSE c
    IN  IF TruthyS(in.model) THEN [c1 EXCEPT !.model = in.model] ELSE c1

\* edit
edit(file, bak, now, in) ==
    Let(select_conversation(file, bak, now, in.kw),
        LAMBDA sel :
            IF sel.outcome # "ok" THEN Unselected(sel)
            ELSE IF in.prompt /\ Len(sel.conversation.messages.l) = 0
            THEN Raised(sel)
            ELSE Written(sel, EditBody(sel.conversation, in), now))

\* drop: messages.pop() raises IndexError on a conversation without messages
drop(file, bak, now, in) ==
    Let(select_conversation(file, bak, now, in.kw),
        LAMBDA sel :
            IF sel.outcome # "ok" THEN Unselected(sel)
            ELSE IF Len(sel.conversation.messages.l) = 0 THEN Raised(sel)
            ELSE Written(sel, PopMessage(sel.conversation), now))

\* add_tag (the command tag)
add_tag(file, bak, now, in) ==
    Let(select_conversation(file, bak, now, in.kw),
        LAMBDA sel :
            IF sel.outcome # "ok" THEN Unselected(sel)
            ELSE Written(sel, ConvAddTag(sel.conversation, in.new_tag), now))

RemoveTag(c, tag_to_remove) ==
    [c EXCEPT !.tags = List(SelectSeq(c.tags.l, LAMBDA t : t # tag_to_remove))]

\* untag
untag(file, bak, now, in) ==
    Let(select_conversation(file, bak, now, in.kw),
        LAMBDA sel :
            IF sel.outcome # "ok" THEN Unselected(sel)
            ELSE Written(sel, RemoveTag(sel.conversation, in.tag_to_remove), now))

\* merge_list: the additions not yet in the list, appended in order
RECURSIVE merge_list(_, _)
merge_list(input_list, additions) ==
    IF additions = <<>> THEN input_list
    ELSE merge_list(IF InList(Head(additions), input_list) THEN input_list
                    ELSE Append(input_list, Head(additions)),
                    Tail(additions))

\* The loop of merge over the conversations, oldest first
RECURSIVE MergeItems(_, _)
MergeItems(merged, items) ==
    IF items = <<>> THEN merged
    ELSE MergeItems(
            [messages |-> merge_list(merged.messages, Head(items)[2].messages.l),
             tags |-> merge_list(merged.tags,
                                 SelectSeq(Head(items)[2].tags.l,
                                           LAMBDA t : ~is_personality(t))),
             plugins |-> merge_list(merged.plugins, Head(items)[2].plugins.l),
             model |-> IF TruthyS(Head(items)[2].model) THEN Head(items)[2].model
                       ELSE merged.model],
            Tail(items))

\* The conversation merge builds from the conversations found
Merged(items, personality) ==
    Let(MergeItems([messages |-> <<>>,
                    tags |-> IF personality # <<>>
                             THEN << <<"^">> \o personality >> ELSE <<>>,
                    plugins |-> <<>>,
                    model |-> NullS],
                   Reverse(items)),
        LAMBDA merged :
            Conversation([EmptyObject EXCEPT
                            !.messages = List(merged.messages),
                            !.tags = List(merged.tags),
                            !.plugins = List(merged.plugins),
                            !.model = merged.model]))

\* merge: in.offsets, in.search, in.tag the filters, in.personality
merge(file, bak, now, in) ==
    Let(conversation_log(file, bak, now),
        LAMBDA read :
            Let(search_conversations(read.convs, in.offsets, in.search, in.tag),
                LAMBDA found :
                    IF ~read.ok \/ ~found.ok THEN Raised(read)
                    ELSE Written(read, Merged(found.items, in.personality), now)))

\* tags (list_tags): a command that only reads the log
list_tags(file, bak, now) ==
    Let(conversation_log(file, bak, now),
        LAMBDA read :
            Result(IF read.ok THEN "ok" ELSE "raise", read.file, read.backup,
                   read.migrated, <<>>))

\* The wrapper of filter_conversations: the filters the search of the command
\* is given. kw: offsets ({}: none), search and tag (<<>>: none),
\* select_personality (<<>>: none).
filter_conversations(kw) ==
    [offsets |-> kw.offsets, search |-> kw.search,
     tag |-> IF kw.select_personality # <<>>
                 /\ ~(kw.tag # <<>> \/ kw.search # <<>>)
             THEN <<"^">> \o kw.select_personality ELSE kw.tag]

NoLimit == 0 - 1                        \* --limit not given (None)

\* log: [outcome, file, backup, migrated, wrote, shown], shown the offsets of
\* the entries printed, in the order printed. islice takes the first
\* in.limit entries of the lazy search, which reads the log at its first
\* turn and examines an entry only while fewer than in.limit were yielded;
\* the entries taken are printed from the oldest. Printing an entry without
\* messages raises (find, then messages[-1]) unless --json is given.
log_command(file, bak, now, in) ==
    IF in.limit = 0 THEN Result("ok", file, bak, FALSE, <<>>) @@ [shown |-> <<>>]
    ELSE
    Let(conversation_log(file, bak, now),
        LAMBDA read :
            LET f == filter_conversations(in.kw)
                n == Len(read.convs)
                test(i) == MatchEntry(i, Numbered(read.convs)[i][2],
                                      f.offsets, f.search, f.tag)
                yielded(i) == Cardinality({j \in 1..(i - 1) : test(j) = "yield"})
                examined(i) == in.limit = NoLimit \/ yielded(i) < in.limit
                taken == SelectSeq([i \in 1..n |-> i],
                                   LAMBDA i : examined(i) /\ test(i) = "yield")
                raised == \/ ~read.ok
                          \/ \E i \in 1..n : examined(i) /\ test(i) = "raise"
                printed(i) == in.format_json
                              \/ Len(Numbered(read.convs)[i][2].messages.l) > 0
            IN  IF raised THEN Raised(read) @@ [shown |-> <<>>]
                ELSE Result(IF \A k \in 1..Len(taken) : printed(taken[k])
                            THEN "ok" ELSE "raise",
                            read.file, read.backup, read.migrated, <<>>)
                     @@ [shown |-> Reverse(taken)])

\* init
init(file, bak, now, reinit) ==
    Let(create_initial_log(file, reinit, now),
        LAMBDA made :
            Result(IF made.ok THEN "ok" ELSE "exists", made.file, bak, FALSE,
                   IF made.ok
                   THEN [i \in 1..Len(DefaultLog) |->
                            WriteArgs(Conversation(DefaultLog[i]), NullD, NullD)]
                   ELSE <<>>))

----------------------------------------------------------------------------
(* conversation.py: the streaming accumulator *)

\* Values of a fragment: a content delta, id and model are strings or None,
\* created is an int or None; "absent" is a key not yet in a dict.
Text(s) == [t |-> "str", s |-> s]
NoneText == [t |-> "null", s |-> <<>>]
IntV(n) == [t |-> "int", n |-> n]
NoneInt == [t |-> "null", n |-> 0]
AbsentInt == [t |-> "absent", n |-> 0]

\* bool(content) of a delta: None and "" are falsy
TruthyText(x) == x.t = "str" /\ Len(x.s) > 0

\* dict.get(key) is None
IsNone(x) == x.t \in {"absent", "null"}

\* A ChatCompletionChunk as the loop reads it: choices is a list of choices
\* with a delta each, possibly empty.
Chunk(choices, id, created, model) ==
    [choices |-> choices, id |-> id, created |-> created, model |-> model]

Choice(content) == [delta |-> [content |-> content]]

\* completion = {}
EmptyCompletion == [id |-> AbsentS, created |-> AbsentInt, model |-> AbsentS]

NoResponse ==
    [object |-> "", usage |-> NullD, choices |-> <<>>,
     id |-> NullS, created |-> NoneInt, model |-> NullS]

Running == [state |-> "running", how |-> "-", response |-> NoResponse]

Raised_(how) == [state |-> "raised", how |-> how, response |-> NoResponse]

\* ChatCompletionMessage(text=, content=, role="assistant", ...)
ChatCompletionMessage(content) ==
    [text |-> content, content |-> content, role |-> "assistant"]

\* CompletionChoice(finish_reason="stop", index=0, text=, message=, ...)
CompletionChoice(content) ==
    [finish_reason |-> "stop", index |-> 0, text |-> content,
     message |-> ChatCompletionMessage(content)]

\* Completion(object="text_completion", usage=None, choices=[choice],
\* **completion). Completion is a pydantic model of the openai library whose
\* fields id: str, created: int and model: str are required and not
\* Optional: the constructor raises ValidationError when one of them is
\* missing or None.
Completion(how, choices, kw) ==
    IF kw.id.t = "str" /\ kw.created.t = "int" /\ kw.model.t = "str"
    THEN [state |-> "returned", how |-> how,
          response |-> [object |-> "text_completion", usage |-> NullD,
                        choices |-> choices,
                        id |-> kw.id, created |-> kw.created, model |-> kw.model]]
    ELSE Raised_("ValidationError")

KeepUnlessFalsy(old, new) ==
    IF old.t \in {"absent", "null"} \/ (old.t = "int" /\ old.n = 0) THEN new ELSE old

\* if completion.get(key) is None: completion[key] = chunk.key
KeepFirst(old, new) == IF IsNone(old) THEN new ELSE old

CallbackAlways(called_, content) ==
    Append(called_, IF content.t = "str" THEN content.s ELSE <<>>)

\* if chunk.choices[0].delta.content: callback(chunk_content)
Callback(called_, content) ==
    IF TruthyText(content) THEN Append(called_, content.s) ELSE called_

\* if chunk.choices[0].delta.content: accumulated_content += chunk_content
Accumulate(content_, content) ==
    IF TruthyText(content) THEN content_ \o content.s ELSE content_

----------------------------------------------------------------------------
(* The inputs of the commands *)

Times == {7}                            \* datetime.now

Kw(offset, search, tag, continue_or_retry, select_personality, new) ==
    [offset |-> offset, search |-> search, tag |-> tag,
     continue_or_retry |-> continue_or_retry,
     select_personality |-> select_personality, new |-> new]

\* OFFSET (0: not given), --search and --tag (<<>>: not given)
Selections ==
    {<<0, <<>>, <<>> >>, <<3, <<>>, <<>> >>, <<0, <<"q">>, <<>> >>,
     <<0, <<>>, <<"t">> >>}
Personalities == {<<"d">>}              \* --personality
NewTags == {<<"t">>, <<"^", "d">>}      \* the argument of tag and untag
Response == [content |-> <<"a">>, created |-> 5]
OneRound == <<[response |-> Response, plugin_response |-> <<>>]>>
TwoRounds ==
    <<[response |-> Response, plugin_response |-> <<"p">>],
      [response |-> Response, plugin_response |-> <<>>]>>

ChatInputs ==
    {[kw |-> Kw(0, <<>>, <<>>, continue \/ retry, p, FALSE),
      model |-> NullS, additional_plugins |-> <<>>, retry |-> retry,
      quick |-> retry, question |-> question, rounds |-> OneRound] :
        continue \in BOOLEAN, retry \in BOOLEAN,
        question \in {<<>>, <<"q">>}, p \in Personalities}

AnswerInputs ==
    {[kw |-> Kw(sel[1], sel[2], sel[3], FALSE, <<>>, FALSE),
      model |-> NullS, rounds |-> rounds] :
        sel \in {<<0, <<>>, <<>> >>, <<0, <<"q">>, <<>> >>, <<2, <<>>, <<>> >>},
        rounds \in {OneRound, TwoRounds}}

AddInputs ==
    {[kw |-> Kw(0, <<>>, <<>>, FALSE, <<>>, new),
      model |-> NullS, additional_plugins |-> <<>>,
      personality |-> personality, role |-> "user", content |-> <<"q">>] :
        new \in BOOLEAN, personality \in Personalities \cup {<<>>}}

EditInputs ==
    {[kw |-> Kw(offset, <<>>, <<>>, FALSE, p, FALSE),
      prompt |-> pm[1], content |-> <<"e">>, model |-> pm[2]] :
        offset \in {0, 3}, p \in Personalities,
        pm \in {<<TRUE, NullS>>, <<FALSE, Str("m")>>}}

DropInputs ==
    {[kw |-> Kw(sel[1], sel[2], sel[3], FALSE, <<>>, FALSE)] : sel \in Selections}

TagInputs ==
    {[kw |-> Kw(0, <<>>, <<>>, FALSE, <<>>, FALSE), new_tag |-> new_tag] :
        new_tag \in NewTags}

UntagInputs ==
    {[kw |-> Kw(0, <<>>, <<>>, FALSE, <<>>, FALSE), tag_to_remove |-> tag] :
        tag \in NewTags}

MergeInputs ==
    {[offsets |-> f[1], search |-> f[2], tag |-> f[3], personality |-> f[4]] :
        f \in {<<{}, <<>>, <<>>, <<>> >>, <<{1, 2}, <<>>, <<>>, <<"d">> >>,
               <<{}, <<"q">>, <<>>, <<>> >>, <<{}, <<>>, <<"t">>, <<>> >>}}

\* log: OFFSETS, --search, --tag, --personality, --limit, --json
LogInputs ==
    {[kw |-> [offsets |-> f[1], search |-> f[2], tag |-> f[3],
              select_personality |-> f[4]],
      limit |-> f[5], format_json |-> f[6]] :
        f \in {<<{}, <<>>, <<>>, <<>>, NoLimit, FALSE>>,
               <<{2}, <<>>, <<>>, <<"d">>, NoLimit, FALSE>>,
               <<{}, <<"q">>, <<>>, <<"d">>, 1, FALSE>>,
               <<{}, <<>>, <<"t">>, <<>>, 1, TRUE>>,
               <<{}, <<>>, <<>>, <<"d">>, 0, FALSE>>}}

\* Legacy (pre-0.4) entries a log may hold: well-formed ones, and one for each
\* structural check.
LegacyUsage == Dict({<<"request_tokens", 2>>, <<"completion_tokens", 1>>, <<"total_tokens", 3>>})
LegacyGood ==
    [EmptyObject EXCEPT
        !.messages = List(<<Message("user", <<"q">>), Message("assistant", <<"a">>)>>),
        !.usage = LegacyUsage,
        !.response = Dict({<<"created", 5>>, <<"choices", 1>>})]
LegacyPlain ==
    [EmptyObject EXCEPT
        !.messages = List(<<Message("user", <<"q">>)>>),
        !.usage = NullD,
        !.tags = List(<< <<"t">> >>)]
\* A completion that carries no creation time
LegacyUncreated == [LegacyPlain EXCEPT !.completion = Dict({<<"choices", 1>>})]
LegacyEntries ==
    {LegacyGood, LegacyPlain, LegacyUncreated,
     [LegacyPlain EXCEPT !.messages = StrL],
     [LegacyPlain EXCEPT !.tags = StrL],
     [LegacyPlain EXCEPT !.usage = StrD],
     [LegacyPlain EXCEPT !.completion = StrD],
     [LegacyPlain EXCEPT !.completion = EmptyStrD]}

LegacyLogs == UNION {[1..n -> LegacyEntries] : n \in 1..MaxLegacy}

----------------------------------------------------------------------------
(* The state machine of the log store and its commands *)

\* The fragments a stream delivers
Contents == {NoneText, Text(<<>>), Text(<<"a">>), Text(<<"b">>)}

\* id, created and model of a fragment
Metadata ==
    { <<NullS, NoneInt, NullS>>,
      <<Str("i"), IntV(0), Str("m")>>,
      <<Str("j"), IntV(1), Str("n")>>,
      <<Str("j"), NoneInt, NullS>>,
      <<NullS, IntV(1), Str("n")>> }

Fragments ==
    {Chunk(<<Choice(c)>>, m[1], m[2], m[3]) : c \in Contents, m \in Metadata}
        \cup {Chunk(<<>>, Str("i"), IntV(0), Str("m"))}

\* accumulate_streaming_response has been entered
NoStream ==
    /\ consumed = <<>>
    /\ accumulated_content = <<>>
    /\ stream_completion = EmptyCompletion
    /\ called = <<>>
    /\ result = Running

\* add_answer is not running
NoAnswer ==
    answering = [pc |-> "idle", conversation |-> Conversation(EmptyObject),
                 completed |-> 0, written |-> 0]

\* What the Conversation objects last underwent
Op(name, target, model) == [name |-> name, target |-> target, model |-> model]

\* No Conversation object in memory
NoObjects ==
    objects = [messages |-> <<>>, plugins |-> <<>>, tags |-> <<>>,
               source |-> <<>>, cloned |-> <<>>, before |-> <<>>,
               op |-> Op("none", "-", NullS)]

\* find_log has not been called
NotSearched == [kind |-> "none", dir |-> 0]
NoLookup == lookup = [entries |-> <<>>, start |-> 0, is_dir |-> TRUE, found |-> NotSearched]

NoInvocations == invocations = <<>>
Idle == NoAnswer /\ NoObjects /\ NoLookup /\ NoInvocations

\* No command has run, no log file.
NoLog ==
    /\ log = NoFile
    /\ backup = NoFile
    /\ last = [cmd |-> "none", outcome |-> "ok", completed |-> 0]
    /\ base = 0
    /\ appended = <<>>

Init == NoLog /\ NoStream /\ Idle

Bounded(res) ==
    /\ Len(res.file.lines) <= MaxLog
    /\ \A i \in 1..Len(res.wrote) : Len(res.wrote[i].conversation.messages.l) <= MaxMsgs

\* A command that ran with result res. The log is found (find_log) before the
\* handler runs; init creates it.
Run(cmd, res) ==
    /\ Bounded(res)
    /\ log' = res.file
    /\ backup' = res.backup
    /\ last' = [cmd |-> IF res.outcome = "ok" THEN cmd ELSE "-",
                outcome |-> res.outcome, completed |-> res.completed]
    /\ base' = IF res.migrated THEN Len(res.file.lines) - 1 - Len(res.wrote)
               ELSE IF ~log.exists THEN 0
               ELSE base
    /\ appended' = IF res.migrated \/ ~log.exists THEN res.wrote
                   ELSE appended \o res.wrote
    /\ UNCHANGED <<accVars, restVars>>

CmdInit ==
    \E now \in Times, reinit \in BOOLEAN :
        Run("init", init(log, backup, now, reinit))

CmdChat ==
    \E now \in Times, in \in ChatInputs :
        log.exists /\ Run("chat", chat(log, backup, now, in))

CmdAnswer ==
    \E now \in Times, in \in AnswerInputs :
        log.exists /\ Run("answer", answer(log, backup, now, in))

CmdAdd ==
    \E now \in Times, in \in AddInputs :
        log.exists /\ Run("add", add(log, backup, now, in))

CmdEdit ==
    \E now \in Times, in \in EditInputs :
        log.exists /\ Run("edit", edit(log, backup, now, in))

CmdDrop ==
    \E now \in Times, in \in DropInputs :
        log.exists /\ Run("drop", drop(log, backup, now, in))

CmdMerge ==
    \E now \in Times, in \in MergeInputs :
        log.exists /\ Run("merge", merge(log, backup, now, in))

CmdTag ==
    \E now \in Times, in \in TagInputs :
        log.exists /\ Run("tag", add_tag(log, backup, now, in))

CmdUntag ==
    \E now \in Times, in \in UntagInputs :
        log.exists /\ Run("untag", untag(log, backup, now, in))

CmdTags ==
    \E now \in Times :
        log.exists /\ Run("tags", list_tags(log, backup, now))

CmdLog ==
    \E now \in Times, in \in LogInputs :
        log.exists /\ Run("log", log_command(log, backup, now, in))

\* Any command but init without a log file: find_log raises FileNotFoundError,
\* main prints the hint and exits.
CmdWithoutLog ==
    /\ ~log.exists
    /\ last' = [cmd |-> "-", outcome |-> "no_log", completed |-> 0]
    /\ UNCHANGED <<log, backup, base, appended>>
    /\ UNCHANGED <<accVars, restVars>>

Next ==
    \/ CmdInit
    \/ CmdChat
    \/ CmdAnswer
    \/ CmdAdd
    \/ CmdEdit
    \/ CmdDrop
    \/ CmdMerge
    \/ CmdTag
    \/ CmdUntag
    \/ CmdTags
    \/ CmdLog
    \/ CmdWithoutLog

vars == <<log, backup, last, base, appended,
          consumed, accumulated_content, stream_completion, called, result,
          answering, objects, lookup, invocations>>

Spec == Init /\ [][Next]_vars

\* The log store started on a legacy log, as an installation upgraded from a
\* version before 0.4 finds it.
InitLegacy ==
    /\ log \in {File(lines) : lines \in LegacyLogs}
    /\ backup = NoFile
    /\ last = [cmd |-> "none", outcome |-> "ok", completed |-> 0]
    /\ base = 0
    /\ appended = <<>>
    /\ NoStream
    /\ Idle

\* Reads (tags), and appends with and without a read before them.
NextLegacy ==
    \/ CmdTags
    \/ CmdAdd
    \/ CmdDrop
    \/ CmdTag
    \/ CmdInit

SpecLegacy == InitLegacy /\ [][NextLegacy]_vars

----------------------------------------------------------------------------
(* The state machine of the streaming accumulator: one step per fragment    *)
(* the stream delivers, between two suspensions of the `async for`.         *)

InitAcc == NoLog /\ NoStream /\ Idle

\* The body of the loop on a chunk with a choice
AccChunk ==
    \E chunk \in Fragments :
        /\ result.state = "running"
        /\ Len(consumed) < MaxChunks
        /\ Len(chunk.choices) > 0
        /\ consumed' = Append(consumed, chunk)
        /\ accumulated_content' =
              Accumulate(accumulated_content, chunk.choices[1].delta.content)
        /\ called' = Callback(called, chunk.choices[1].delta.content)
        /\ stream_completion' =
              [id |-> KeepFirst(stream_completion.id, chunk.id),
               created |-> KeepFirst(stream_completion.created, chunk.created),
               model |-> KeepFirst(stream_completion.model, chunk.model)]
        /\ UNCHANGED result
        /\ UNCHANGED <<logVars, restVars>>

\* chunk.choices[0] of a chunk without choices raises IndexError
AccChunkWithoutChoice ==
    \E chunk \in Fragments :
        /\ result.state = "running"
        /\ Len(consumed) < MaxChunks
        /\ Len(chunk.choices) = 0
        /\ consumed' = Append(consumed, chunk)
        /\ result' = Raised_("IndexError")
        /\ UNCHANGED <<accumulated_content, stream_completion, called>>
        /\ UNCHANGED <<logVars, restVars>>

\* The stream ends: the loop is left and the response assembled.
AccExhausted ==
    /\ result.state = "running"
    /\ result' = Completion("end", <<CompletionChoice(accumulated_content)>>,
                            stream_completion)
    /\ UNCHANGED <<consumed, accumulated_content, stream_completion, called>>
    /\ UNCHANGED <<logVars, restVars>>

\* asyncio.CancelledError at the suspension of the loop: except ...: pass,
\* and the response is assembled.
AccCancelled ==
    /\ result.state = "running"
    /\ result' = Completion("cancelled", <<CompletionChoice(accumulated_content)>>,
                            stream_completion)
    /\ UNCHANGED <<consumed, accumulated_content, stream_completion, called>>
    /\ UNCHANGED <<logVars, restVars>>

NextAcc ==
    \/ AccChunk
    \/ AccChunkWithoutChoice
    \/ AccExhausted
    \/ AccCancelled

SpecAcc == InitAcc /\ [][NextAcc]_vars

----------------------------------------------------------------------------
(* The state machine of add_answer, step by step: each turn of its loop     *)
(* awaits complete(), which awaits the accumulated stream, then writes the  *)
(* log, then asks the plugins.                                              *)

\* The message and the creation time of an assembled response, as complete
\* reads them
ResponseOf(response) ==
    [content |-> response.choices[1].message.content,
     created |-> response.created.n]

AnswerWriteBefore(file, c, now) ==
    write_log(file, PopMessage(c), c.usage, c.completion, now)

\* write_log(log_file, conversation, completion=conversation.completion,
\* usage=conversation.usage)
AnswerWrite(file, c, now) == write_log(file, c, c.usage, c.completion, now)

\* Responses of the plugins: none, or a text that goes back as a user message
PluginResponses == {<<>>, <<"p">>}

\* What a stream leaves when it ends or is cancelled: the content accumulated
\* and the metadata found, all of it or none
StreamContents == {<<>>, <<"a">>, <<"a", "b">>}
StreamMetadata ==
    {[id |-> Str("i"), created |-> IntV(0), model |-> Str("m")],
     [id |-> Str("j"), created |-> IntV(1), model |-> Str("m")],
     [id |-> NullS, created |-> NoneInt, model |-> NullS]}

\* `chatcli init`, then `chatcli answer 2`: the conversation is selected and
\* cloned, add_answer awaits its first response.
InitAnswer ==
    /\ \E now \in Times :
          /\ log = init(NoFile, NoFile, now, FALSE).file
          /\ appended = init(NoFile, NoFile, now, FALSE).wrote
    /\ backup = NoFile
    /\ last = [cmd |-> "init", outcome |-> "ok", completed |-> 0]
    /\ base = 0
    /\ NoStream
    /\ answering = [pc |-> "requesting",
                    conversation |-> clone(Conversation(log.lines[2]), NullS),
                    completed |-> 0, written |-> 0]
    /\ NoObjects
    /\ NoLookup
    /\ NoInvocations

\* The stream of the request, from its first fragment to its end or its
\* cancellation: accumulate_streaming_response as one step of add_answer
AnswerStream ==
    \E how \in {"end", "cancelled"}, content \in StreamContents,
       kw \in StreamMetadata :
        /\ answering.pc = "requesting"
        /\ result.state = "running"
        /\ accumulated_content' = content
        /\ stream_completion' = kw
        /\ result' = Completion(how, <<CompletionChoice(content)>>, kw)
        /\ UNCHANGED <<logVars, consumed, called, restVars>>

\* stream_request returns the assembled response and complete appends the
\* reply, or the exception of the accumulator leaves add_answer.
AnswerComplete ==
    /\ answering.pc = "requesting"
    /\ result.state # "running"
    /\ answering' =
          IF result.state = "returned"
          THEN [answering EXCEPT
                   !.pc = "completed",
                   !.conversation = complete(@, ResponseOf(result.response)),
                   !.completed = @ + 1]
          ELSE [answering EXCEPT !.pc = "raised"]
    /\ UNCHANGED <<logVars, accVars, objects, lookup, invocations>>

\* write_log after complete
AnswerLog ==
    \E now \in Times :
        /\ answering.pc = "completed"
        /\ log' = AnswerWrite(log, answering.conversation, now)
        /\ appended' = Append(appended,
                              WriteArgs(answering.conversation,
                                        answering.conversation.usage,
                                        answering.conversation.completion))
        /\ answering' = [answering EXCEPT !.pc = "logged", !.written = @ + 1]
        /\ UNCHANGED <<backup, last, base, accVars, objects, lookup, invocations>>

\* evaluate_plugins gives nothing: break
AnswerDone ==
    /\ answering.pc = "logged"
    /\ answering' = [answering EXCEPT !.pc = "done"]
    /\ UNCHANGED <<logVars, accVars, objects, lookup, invocations>>

\* evaluate_plugins gives a text: it is appended as a user message and the
\* loop requests the next completion, on a new stream.
AnswerAgain ==
    \E plugin_response \in PluginResponses \ {<<>>} :
        /\ answering.pc = "logged"
        /\ Len(log.lines) < MaxLog
        /\ Len(answering.conversation.messages.l) + 2 <= MaxMsgs
        /\ answering' = [answering EXCEPT
                            !.pc = "requesting",
                            !.conversation = ConvAppend(@, "user", plugin_response)]
        /\ accumulated_content' = <<>>
        /\ stream_completion' = EmptyCompletion
        /\ called' = <<>>
        /\ result' = Running
        /\ UNCHANGED <<logVars, consumed, objects, lookup, invocations>>

NextAnswer ==
    \/ AnswerStream
    \/ AnswerComplete
    \/ AnswerLog
    \/ AnswerDone
    \/ AnswerAgain

SpecAnswer == InitAnswer /\ [][NextAnswer]_vars

----------------------------------------------------------------------------
(* The state machine of Conversation objects in memory. An object names its *)
(* lists: objects.messages, objects.plugins and objects.tags are the list   *)
(* objects, an object's messages, plugins and tags fields are indices into  *)
(* them, and two objects with the same index share the list.                *)

\* The conversation an object stands for
Value(o, objs) ==
    [messages |-> List(objs.messages[o.messages]),
     plugins |-> List(objs.plugins[o.plugins]),
     tags |-> List(objs.tags[o.tags]),
     model |-> o.model, usage |-> o.usage, completion |-> o.completion,
     timestamp |-> o.timestamp]

ValueOf(target, objs) == Value(objs[target][1], objs)

\* Conversation(data) of a line of the log: every list is a new object
NewObject(data) ==
    Let(Conversation(data),
        LAMBDA c :
            [messages |-> <<c.messages.l>>, plugins |-> <<c.plugins.l>>,
             tags |-> <<c.tags.l, <<>> >>,
             source |-> <<[messages |-> 1, plugins |-> 1, tags |-> 1,
                           model |-> c.model, usage |-> c.usage,
                           completion |-> c.completion,
                           timestamp |-> c.timestamp]>>,
             cloned |-> <<>>, before |-> <<>>,
             op |-> Op("new", "source", NullS)])

\* Tags of the lines: none, one, several, with a personality first, last and
\* in between, and with one tag twice
ObjectTags ==
    {<<>>, << <<"t">> >>, << <<"^", "d">> >>, << <<"t">>, <<"^", "d">> >>,
     << <<"^", "d">>, <<"t">> >>, << <<"^", "d">>, <<"^", "e">> >>,
     << <<"t">>, <<"u">>, <<"t">> >>, << <<"^", "d">>, <<"t">>, <<"^", "d">> >>}

ObjectLines ==
    {[EmptyObject EXCEPT
        !.messages = List(<<Message("system", <<"s">>), Message("user", <<"q">>)>>),
        !.tags = List(tags), !.plugins = List(<<>>), !.model = model,
        !.usage = uc[1], !.completion = uc[2], !.timestamp = Iso(1)] :
        tags \in ObjectTags, model \in {NullS, Str("m")},
        uc \in {<<NullD, NullD>>,
                <<completion_usage(<<Message("user", <<"q">>)>>, <<"a">>),
                  CompletionDict(Response)>>}}

\* The object a command works on: the clone once it has cloned, as in
\* `conversation = conversation.clone()`
InUse(objs) == IF objs.cloned = <<>> THEN "source" ELSE "cloned"
CloneModels == {NullS, Str("n")}
Replies == {Response}
MaxPlugins == 1     \* plugins a conversation is extended to

InitObj ==
    /\ NoLog
    /\ NoStream
    /\ NoAnswer
    /\ NoLookup
    /\ NoInvocations
    /\ objects \in {NewObject(line) : line \in ObjectLines}

\* c2 = c.clone(model=model): the dict is copied, not the lists in it; tags is
\* a new list
ObjClone ==
    \E model \in CloneModels :
        /\ objects.source # <<>>
        /\ objects.cloned = <<>>
        /\ objects' =
              Let(clone(ValueOf("source", objects), model),
                  LAMBDA c :
                     [objects EXCEPT
                         !.tags[2] = c.tags.l,
                         !.cloned = <<[objects.source[1] EXCEPT
                                         !.tags = 2, !.model = c.model,
                                         !.completion = c.completion]>>,
                         !.before = <<ValueOf("source", objects)>>,
                         !.op = Op("clone", "source", model)])
        /\ UNCHANGED <<logVars, accVars, answering, lookup, invocations>>

\* add_tag(tag): self.tags becomes a new list
ObjAddTag ==
    \E tag \in NewTags :
        /\ objects' =
              Let(InUse(objects),
                  LAMBDA target :
                     [objects EXCEPT
                         !.tags[objects[target][1].tags] =
                             ConvAddTag(ValueOf(target, objects), tag).tags.l,
                         !.op = Op("add_tag", target, NullS)])
        /\ UNCHANGED <<logVars, accVars, answering, lookup, invocations>>

\* append(role, content): self.messages.append, on the list itself
ObjAppend ==
    /\ Len(ValueOf(InUse(objects), objects).messages.l) < MaxMsgs
    /\ objects' =
          Let(InUse(objects),
              LAMBDA target :
                 [objects EXCEPT
                     !.messages[objects[target][1].messages] =
                         ConvAppend(ValueOf(target, objects), "user", <<"q">>).messages.l,
                     !.op = Op("append", target, NullS)])
    /\ UNCHANGED <<logVars, accVars, answering, lookup, invocations>>

\* complete(), given the response of the request
ObjComplete ==
    \E response \in Replies :
        /\ Len(ValueOf(InUse(objects), objects).messages.l) < MaxMsgs
        /\ objects' =
              Let(InUse(objects),
                  LAMBDA target :
                     Let(complete(ValueOf(target, objects), response),
                         LAMBDA c :
                            [objects EXCEPT
                                !.messages[objects[target][1].messages] = c.messages.l,
                                ![target] = <<[objects[target][1] EXCEPT
                                                 !.completion = c.completion,
                                                 !.usage = c.usage]>>,
                                !.op = Op("complete", target, NullS)]))
        /\ UNCHANGED <<logVars, accVars, answering, lookup, invocations>>

\* messages.pop(), on the list itself: chat --retry pops from its clone once
\* it has extended the plugins, before anything else
ObjPop ==
    /\ objects.op.name \in {"clone", "extend"}
    /\ Len(ValueOf(InUse(objects), objects).messages.l) > 0
    /\ objects' =
          Let(InUse(objects),
              LAMBDA target :
                 [objects EXCEPT
                     !.messages[objects[target][1].messages] =
                         PopMessage(ValueOf(target, objects)).messages.l,
                     !.op = Op("pop", target, NullS)])
    /\ UNCHANGED <<logVars, accVars, answering, lookup, invocations>>

\* plugins.extend(additional_plugins), on the list itself: chat extends the
\* plugins of its clone right after cloning
ObjExtendPlugins ==
    /\ objects.op.name = "clone"
    /\ Len(ValueOf(InUse(objects), objects).plugins.l) < MaxPlugins
    /\ objects' =
          Let(InUse(objects),
              LAMBDA target :
                 [objects EXCEPT
                     !.plugins[objects[target][1].plugins] =
                         ValueOf(target, objects).plugins.l \o << <<"p">> >>,
                     !.op = Op("extend", target, NullS)])
    /\ UNCHANGED <<logVars, accVars, answering, lookup, invocations>>

NextObj ==
    \/ ObjClone
    \/ ObjAddTag
    \/ ObjAppend
    \/ ObjComplete
    \/ ObjPop
    \/ ObjExtendPlugins

SpecObj == InitObj /\ [][NextObj]_vars


----------------------------------------------------------------------------
(* The state machine of find_log: a directory tree, a starting path, and    *)
(* the call.                                                                *)

\* The trees: each directory holds no log, a log file, or a link to a file
\* of another directory.
Entries ==
    {e \in [Dirs -> {NoEntry, FileEntry} \cup {LinkEntry(t) : t \in Dirs}] :
        \A d \in Dirs : e[d].target # d}

InitFind ==
    /\ NoLog /\ NoStream /\ NoAnswer /\ NoObjects /\ NoInvocations
    /\ lookup \in {[entries |-> e, start |-> d, is_dir |-> b, found |-> NotSearched] :
                      e \in Entries, d \in Dirs, b \in BOOLEAN}

FindLog ==
    /\ lookup.found = NotSearched
    /\ lookup' = [lookup EXCEPT
                    !.found = find_log(lookup.entries, lookup.start, lookup.is_dir)]
    /\ UNCHANGED <<logVars, accVars, answering, objects, invocations>>

NextFind == FindLog

SpecFind == InitFind /\ [][NextFind]_vars

----------------------------------------------------------------------------
(* The state machine of two invocations on one log file. Each reads the log *)
(* (conversation_log) and then appends one entry (write_log); a step is one *)
(* open-to-close of the file, which the other process cannot split: the     *)
(* read of a version-tagged log, the read of the legacy lines, the copy to  *)
(* the backup, the rewrite, and the append of one line.                     *)

Procs == {1, 2}

\* The entry the invocation p appends
EntryOf(p) ==
    Conversation([EmptyObject EXCEPT
                    !.messages = List(<<Message("user", <<"q">>),
                                        Message("user", IF p = 1 THEN <<"a">> ELSE <<"b">>)>>)])

\* The logs the two start on: legacy logs and the logs migrated from them
RaceLogs ==
    {File(lines) : lines \in LegacyLogs}
        \cup {rewrite_log(convert_log_pre_0_4(lines, 1).lines) :
                lines \in {l \in LegacyLogs : convert_log_pre_0_4(l, 1).ok}}

InitRace ==
    /\ log \in RaceLogs
    /\ backup = NoFile
    /\ last = [cmd |-> "none", outcome |-> "ok", completed |-> 0]
    /\ base = 0
    /\ appended = <<>>
    /\ NoStream /\ NoAnswer /\ NoObjects /\ NoLookup
    /\ invocations = [p \in Procs |-> [pc |-> "open", lines |-> <<>>, migrated |-> FALSE]]

\* conversation_log up to the test of the version: on a version-tagged log
\* the rest of the lines is read from the same handle; on a legacy log the
\* handle is closed.
RaceOpen(p) ==
    /\ invocations[p].pc = "open"
    /\ invocations' =
          [invocations EXCEPT ![p].pc =
              IF Len(log.lines) = 0 THEN "raised"
              ELSE IF GetS(log.lines[1].version).t = "null" THEN "convert"
              ELSE "append"]
    /\ UNCHANGED <<logVars, accVars, answering, objects, lookup>>

\* list(convert_log_pre_0_4(log_path)): the file is opened again and read as
\* it is now
RaceConvert(p) ==
    /\ invocations[p].pc = "convert"
    /\ \E now \in Times :
          Let(convert_log_pre_0_4(log.lines, now),
              LAMBDA conv :
                 invocations' =
                    [invocations EXCEPT
                        ![p] = IF conv.ok
                               THEN [pc |-> "backup", lines |-> conv.lines,
                                     migrated |-> TRUE]
                               ELSE [pc |-> "raised", lines |-> <<>>,
                                     migrated |-> FALSE]])
    /\ UNCHANGED <<logVars, accVars, answering, objects, lookup>>

\* shutil.copyfile(log_path, backup_file)
RaceBackup(p) ==
    /\ invocations[p].pc = "backup"
    /\ backup' = File(log.lines)
    /\ invocations' = [invocations EXCEPT ![p].pc = "rewrite"]
    /\ UNCHANGED <<log, last, base, appended, accVars, answering, objects, lookup>>

\* rewrite_log(log_path, lines): the file is truncated and written with the
\* lines this process converted
RaceRewrite(p) ==
    /\ invocations[p].pc = "rewrite"
    /\ log' = rewrite_log(invocations[p].lines)
    /\ invocations' = [invocations EXCEPT ![p].pc = "append"]
    /\ UNCHANGED <<backup, last, base, appended, accVars, answering, objects, lookup>>

\* write_log(log_file, conversation): one line appended
RaceAppend(p) ==
    /\ invocations[p].pc = "append"
    /\ \E now \in Times : log' = write_log(log, EntryOf(p), NullD, NullD, now)
    /\ invocations' = [invocations EXCEPT ![p].pc = "done"]
    /\ UNCHANGED <<backup, last, base, appended, accVars, answering, objects, lookup>>

NextRace ==
    \/ \E p \in Procs : RaceOpen(p)
    \/ \E p \in Procs : RaceConvert(p)
    \/ \E p \in Procs : RaceBackup(p)
    \/ \E p \in Procs : RaceRewrite(p)
    \/ \E p \in Procs : RaceAppend(p)

SpecRace == InitRace /\ [][NextRace]_vars

----------------------------------------------------------------------------
(* Properties of the log store *)

\* The first line of the file carries a version marker.
VersionTagged(file) ==
    file.exists /\ Len(file.lines) > 0 /\ TruthyS(GetS(file.lines[1].version))

OneEntryCommands == {"add", "edit", "drop", "merge", "tag", "untag"}

\* C1: on a version-tagged log every step of every command keeps the lines
\* that were there as an unchanged prefix of the lines after it, and each of
\* add, edit, drop, merge, tag and untag that ends well appends exactly one
\* line.
C1_AppendOnly ==
    [][VersionTagged(log) =>
          /\ IsPrefix(log.lines, log'.lines)
          /\ (last'.cmd \in OneEntryCommands =>
                Len(log'.lines) = Len(log.lines) + 1)]_vars

C1_Witness ==
    /\ last.cmd \in OneEntryCommands
    /\ Len(log.lines) > 1 + Len(DefaultLog)

\* What write_log was given as what conversation_log gives back
SameSnapshot(conversation, args) ==
    /\ conversation.messages = args.conversation.messages
    /\ conversation.tags.l = args.conversation.tags.l
    /\ conversation.plugins.l = args.conversation.plugins.l
    /\ conversation.model = GetS(args.conversation.model)
    /\ conversation.usage = args.usage
    /\ conversation.completion = args.completion

\* C2: on a version-tagged log the read returns, after the entries that were
\* there, exactly the conversations given to write_log since, in the order of
\* the calls, and the search without filters numbers all of them from the
\* newest: the k-th most recently appended has offset k.
C2_ReadBack ==
    VersionTagged(log) =>
        \A now \in Times :
            Let(conversation_log(log, backup, now),
                LAMBDA read :
                    /\ read.ok
                    /\ Len(read.convs) = base + Len(appended)
                    /\ \A k \in 1..Len(appended) :
                          SameSnapshot(read.convs[base + k], appended[k])
                    /\ Let(search_conversations(read.convs, {}, <<>>, <<>>),
                           LAMBDA found :
                                /\ found.ok
                                /\ Len(found.items) = Len(read.convs)
                                /\ \A k \in 1..Len(found.items) :
                                      found.items[k][1] = k
                                /\ \A k \in 1..Len(appended) :
                                      SameSnapshot(found.items[k][2],
                                                   appended[Len(appended) + 1 - k])))

C2_Witness ==
    /\ VersionTagged(log)
    /\ Len(appended) > Len(DefaultLog)
    /\ appended[Len(appended)] # appended[Len(appended) - 1]

\* C3: every entry a command appended has at least one message.
C3_MessagesNeverEmpty ==
    /\ \A k \in 1..Len(appended) : Len(appended[k].conversation.messages.l) > 0
    /\ VersionTagged(log) =>
          \A i \in 2..Len(log.lines) : Len(log.lines[i].messages.l) > 0

\* C4: init without --reinit on a log file that exists ends with
\* Already-Exists, writes nothing and leaves the file as it was.
C4_InitTwiceFails ==
    log.exists =>
        \A now \in Times :
            Let(init(log, backup, now, FALSE),
                LAMBDA res :
                    /\ res.outcome = "exists"
                    /\ res.file = log
                    /\ res.wrote = <<>>)

C4_Witness == last.outcome = "exists" /\ Len(log.lines) = 1 + Len(DefaultLog)

\* C5: a read that ends well leaves a version-tagged log, and migrates exactly
\* when the log is not version-tagged; once the log is version-tagged it stays
\* so, no step writes the backup again, and a read leaves the log as it is.
C5_MigratesOnce ==
    [][/\ (last'.cmd = "tags" =>
              /\ VersionTagged(log')
              /\ (~VersionTagged(log) <=> backup' = File(log.lines))
              /\ (VersionTagged(log) => log' = log))
       /\ (VersionTagged(log) =>
              /\ VersionTagged(log')
              /\ backup' = backup)]_vars

C5_Witness ==
    /\ last.cmd = "tags"
    /\ backup.exists
    /\ Len(log.lines) > 1 + Len(backup.lines)

\* The structural checks of the migration
FailsStructuralChecks(data) ==
    \/ data.messages.t # "list"
    \/ data.tags.t \notin {"absent", "list"}
    \/ data.completion.t \notin {"absent", "null", "dict"}
    \/ data.response.t \notin {"absent", "null", "dict"}
    \/ data.usage.t \notin {"null", "dict"}

Corrupt(file) ==
    /\ file.exists
    /\ ~VersionTagged(file)
    /\ \E i \in 1..Len(file.lines) : FailsStructuralChecks(file.lines[i])

\* C6: on a legacy log with an entry that fails the structural checks no step
\* writes a backup or changes a line of the log.
C6_CorruptLogUntouched ==
    [][Corrupt(log) => backup' = backup /\ IsPrefix(log.lines, log'.lines)]_vars

\* A legacy entry and the current-schema entry the migration makes of it
MigratedEntry(old, new) ==
    /\ new.messages = old.messages
    /\ \A key \in {"messages", "completion", "tags", "usage", "timestamp",
                   "plugins", "model"} : new[key].t # "absent"
    /\ new.version.t = "absent" /\ new.response.t = "absent"
    /\ old.usage.t = "dict" /\ Has(old.usage.d, "request_tokens") =>
          /\ Has(new.usage.d, "prompt_tokens")
          /\ Get(new.usage.d, "prompt_tokens") = Get(old.usage.d, "request_tokens")
          /\ ~Has(new.usage.d, "request_tokens")
          /\ \A p \in old.usage.d :
                p[1] \notin {"request_tokens", "prompt_tokens"} => p \in new.usage.d

\* C7: the step that migrates a legacy log of N entries leaves the version
\* header followed by the N entries converted, in the same order, with every
\* request_tokens moved to prompt_tokens, and the backup is the legacy log as
\* it was.
C7_Migration ==
    [][(log.exists /\ ~VersionTagged(log) /\ VersionTagged(log')) =>
          /\ backup' = log
          /\ log'.lines[1] = VersionHeader
          /\ Len(log'.lines) >= Len(log.lines) + 1
          /\ (last'.cmd = "tags" => Len(log'.lines) = Len(log.lines) + 1)
          /\ \A i \in 1..Len(log.lines) :
                MigratedEntry(log.lines[i], log'.lines[i + 1])]_vars

C7_Witness ==
    /\ backup.exists
    /\ VersionTagged(log)
    /\ Len(backup.lines) >= 2
    /\ backup.lines[1] # backup.lines[2]
    /\ \E i \in 1..Len(backup.lines) :
          backup.lines[i].usage.t = "dict"
              /\ Has(backup.lines[i].usage.d, "request_tokens")

----------------------------------------------------------------------------
(* Properties of the streaming accumulator *)

\* The content delta of a fragment as text: none and "" are the empty text.
DeltaOf(chunk) ==
    IF Len(chunk.choices) > 0 /\ chunk.choices[1].delta.content.t = "str"
    THEN chunk.choices[1].delta.content.s
    ELSE <<>>

RECURSIVE ConcatDeltas(_)
ConcatDeltas(chunks) ==
    IF chunks = <<>> THEN <<>>
    ELSE ConcatDeltas(SubSeq(chunks, 1, Len(chunks) - 1)) \o DeltaOf(chunks[Len(chunks)])

RECURSIVE NonEmptyDeltas(_)
NonEmptyDeltas(chunks) ==
    IF chunks = <<>> THEN <<>>
    ELSE NonEmptyDeltas(SubSeq(chunks, 1, Len(chunks) - 1))
            \o (IF DeltaOf(chunks[Len(chunks)]) = <<>> THEN <<>>
                ELSE <<DeltaOf(chunks[Len(chunks)])>>)

\* C8: once the stream has ended or been cancelled after k >= 1 fragments,
\* each with its optional content delta, accumulate_streaming_response has
\* returned, without an error, one response whose content is the deltas of the
\* k fragments concatenated in order, with role assistant and finish reason
\* stop.
C8_PartialResponse ==
    (/\ result.state # "running"
     /\ Len(consumed) >= 1
     /\ \A i \in 1..Len(consumed) : Len(consumed[i].choices) > 0) =>
        /\ result.state = "returned"
        /\ Len(result.response.choices) = 1
        /\ result.response.choices[1].message.content = ConcatDeltas(consumed)
        /\ result.response.choices[1].message.role = "assistant"
        /\ result.response.choices[1].finish_reason = "stop"

\* C9: at every point of the accumulation the arguments of the calls of the
\* callback so far are the non-empty content deltas of the fragments consumed
\* so far, in their order: one call for each, none for a fragment whose delta
\* is empty or None.
C9_CallbackPerDelta == called = NonEmptyDeltas(consumed)

C9_Witness ==
    /\ result.state = "returned"
    /\ Len(called) >= 2
    /\ called[1] # called[2]
    /\ \E i \in 1..Len(consumed) :
          ~TruthyText(consumed[i].choices[1].delta.content)

\* C10: the response that is assembled carries, for each of id, created and
\* model, the value of the first consumed fragment whose value for that field
\* is not None, whatever later fragments carry.
C10_FirstWins ==
    result.state = "returned" =>
        \A field \in {"id", "created", "model"} :
            \A i \in 1..Len(consumed) :
                (/\ consumed[i][field].t # "null"
                 /\ \A j \in 1..(i - 1) : consumed[j][field].t = "null") =>
                    result.response[field] = consumed[i][field]

C10_Witness ==
    /\ result.state = "returned"
    /\ consumed[1].id.t = "null"
    /\ \E i, j \in 1..Len(consumed) :
          /\ i < j
          /\ consumed[i].created = IntV(0)
          /\ consumed[j].created = IntV(1)
          /\ consumed[i].model.t = "str" /\ consumed[j].model.t = "str"
          /\ consumed[i].model # consumed[j].model

----------------------------------------------------------------------------
(* Properties of add_answer *)

----------------------------------------------------------------------------
(* Properties of Conversation objects *)

\* C12: right after clone(), the clone has no tags when the source has none
\* or its last tag is not a personality, and exactly the source's last tag
\* when that tag is a personality (starts with "^").
C12_CloneKeepsPersonality ==
    objects.op.name = "clone" =>
        Let(objects.before[1].tags.l,
            LAMBDA tags :
                ValueOf("cloned", objects).tags.l =
                    IF tags # <<>> /\ tags[Len(tags)][1] = "^"
                    THEN <<tags[Len(tags)]>>
                    ELSE <<>>)

\* The occurrences of x in a sequence
Count(x, seq) == Cardinality({i \in 1..Len(seq) : seq[i] = x})

Without(x, seq) == SelectSeq(seq, LAMBDA y : y # x)

\* C16: add_tag(t) on the tags of any conversation leaves t exactly once and
\* last, leaves the other tags as they were, each as often and in the same
\* order, personalities included, and a second add_tag(t) changes nothing.
C16_AddTag ==
    objects.source # <<>> =>
        \A t \in NewTags :
            Let(ValueOf(InUse(objects), objects),
                LAMBDA c :
                    Let(ConvAddTag(c, t).tags.l,
                        LAMBDA tags :
                            /\ Count(t, tags) = 1
                            /\ tags[Len(tags)] = t
                            /\ Without(t, tags) = Without(t, c.tags.l)
                            /\ ConvAddTag(ConvAddTag(c, t), t).tags.l = tags))

C16_Witness ==
    /\ objects.op.name = "add_tag"
    /\ Len(ValueOf(InUse(objects), objects).tags.l) >= 3
    /\ \E t \in NewTags : Count(t, ValueOf(InUse(objects), objects).tags.l) = 2

\* C19: the step of clone(model=m) gives an object whose messages, plugins
\* and usage are those of the source at the call, whose completion is None
\* and whose model is m when m is given and the source's otherwise, and it
\* leaves every field of the source as it was.
C19_CloneFrame ==
    [][objects'.op.name = "clone" /\ objects.cloned = <<>> =>
          /\ ValueOf("cloned", objects').messages = ValueOf("source", objects).messages
          /\ ValueOf("cloned", objects').plugins = ValueOf("source", objects).plugins
          /\ ValueOf("cloned", objects').usage = ValueOf("source", objects).usage
          /\ ValueOf("cloned", objects').completion = NullD
          /\ ValueOf("cloned", objects').model =
                IF objects'.op.model.t = "str" THEN objects'.op.model
                ELSE ValueOf("source", objects).model
          /\ ValueOf("source", objects') = ValueOf("source", objects)]_vars

C19_Witness ==
    /\ objects.op.name = "clone"
    /\ objects.op.model.t = "str"
    /\ objects.before[1].completion.t = "dict"
    /\ objects.before[1].usage.t = "dict"
    /\ objects.before[1].model.t = "str"

\* C20: a step of complete() adds one message to the end of messages, with
\* role assistant and the content of the response, sets completion to the
\* response and usage to the usage of the request: the tokens of the messages
\* before the reply, and of the reply; each further call adds one more.
C20_Complete ==
    [][objects'.op.name = "complete" =>
          Let(ValueOf(InUse(objects), objects),
              LAMBDA old :
                Let(ValueOf(InUse(objects), objects'),
                    LAMBDA new :
                        /\ Len(new.messages.l) = Len(old.messages.l) + 1
                        /\ SubSeq(new.messages.l, 1, Len(old.messages.l)) = old.messages.l
                        /\ \E response \in Replies :
                              /\ new.messages.l[Len(new.messages.l)] =
                                    Message("assistant", response.content)
                              /\ new.completion = CompletionDict(response)
                              /\ Get(new.usage.d, "completion_tokens") =
                                    Len(response.content)
                        /\ Get(new.usage.d, "prompt_tokens") =
                              RequestTokens(old.messages.l)
                        /\ Get(new.usage.d, "total_tokens") =
                              Get(new.usage.d, "prompt_tokens")
                                 + Get(new.usage.d, "completion_tokens")))]_vars

C20_Witness ==
    /\ objects.op.name = "complete"
    /\ Let(ValueOf(InUse(objects), objects).messages.l,
           LAMBDA messages :
                /\ Len(messages) >= 4
                /\ messages[Len(messages)].role = "assistant"
                /\ messages[Len(messages) - 1].role = "assistant")


----------------------------------------------------------------------------
(* Properties of the selection of conversations *)

\* The filters a search is given: offsets ({}: none), search term and tag
\* (<<>>: none)
SearchOffsets == {{}, {1}, {2, 3}, {MaxLog + 1}}
SearchTerms == {<<>>, <<"q">>, <<"e">>}
SearchTags == {<<>>, <<"t">>, <<"^", "d">>}

\* The entry numbered idx from the newest satisfies every filter given. The
\* question message is the second-to-last message when there are at least
\* two and otherwise the last; an entry without messages has none.
Satisfies(idx, convs, offsets, search, tag) ==
    LET c == convs[Len(convs) + 1 - idx]
        n == Len(c.messages.l)
    IN  /\ offsets # {} => idx \in offsets
        /\ search # <<>> =>
              /\ n > 0
              /\ IsSubstr(search, c.messages.l[IF n > 1 THEN n - 1 ELSE n].content)
        /\ tag # <<>> => \E k \in 1..Len(c.tags.l) : c.tags.l[k] = tag

YieldedOffsets(found) == {found.items[k][1] : k \in 1..Len(found.items)}

\* The search runs to its end and yields exactly the entries that satisfy
\* the filters, each with its offset, in increasing offset order.
YieldsExactly(found, convs, offsets, search, tag) ==
    /\ found.ok
    /\ YieldedOffsets(found) =
          {i \in 1..Len(convs) : Satisfies(i, convs, offsets, search, tag)}
    /\ \A k \in 1..Len(found.items) :
          /\ found.items[k][2] = convs[Len(convs) + 1 - found.items[k][1]]
          /\ k > 1 => found.items[k - 1][1] < found.items[k][1]

\* C13: on every log the commands leave, for every combination of offsets,
\* search term and tag, search_conversations yields exactly the entries that
\* satisfy every filter given, each paired with its offset in the unfiltered
\* history, in strictly increasing offset order; with a tag and a search term
\* it yields the intersection of what each of the two yields alone.
C13_SearchExact ==
    VersionTagged(log) =>
        \A now \in Times, offsets \in SearchOffsets,
           search \in SearchTerms, tag \in SearchTags :
            Let(conversation_log(log, backup, now).convs,
                LAMBDA convs :
                    /\ YieldsExactly(search_conversations(convs, offsets, search, tag),
                                     convs, offsets, search, tag)
                    /\ YieldedOffsets(search_conversations(convs, offsets, search, tag))
                         = YieldedOffsets(search_conversations(convs, offsets, search, <<>>))
                           \cap YieldedOffsets(search_conversations(convs, offsets, <<>>, tag)))

\* The same on the logs where every entry has a message.
SearchExactOnQuestions ==
    (VersionTagged(log) /\ \A i \in 2..Len(log.lines) : Len(log.lines[i].messages.l) > 0) =>
        \A now \in Times, offsets \in SearchOffsets,
           search \in SearchTerms, tag \in SearchTags :
            Let(conversation_log(log, backup, now).convs,
                LAMBDA convs :
                    /\ YieldsExactly(search_conversations(convs, offsets, search, tag),
                                     convs, offsets, search, tag)
                    /\ YieldedOffsets(search_conversations(convs, offsets, search, tag))
                         = YieldedOffsets(search_conversations(convs, offsets, search, <<>>))
                           \cap YieldedOffsets(search_conversations(convs, offsets, <<>>, tag)))


\* OFFSET as the command line gives it: <<FALSE, 0>> without the argument,
\* <<TRUE, n>> with the argument n.
SelectOffsets == {<<FALSE, 0>>, <<TRUE, 0>>, <<TRUE, 1>>, <<TRUE, 3>>,
                  <<TRUE, MaxLog + 1>>}

\* The selection of one conversation gives the entry of the smallest offset
\* among those satisfying the filters, and Not-Found when there is none.
SelectsMostRecent(got, convs, offsets, search, tag) ==
    LET sat == {i \in 1..Len(convs) : Satisfies(i, convs, offsets, search, tag)}
    IN  IF sat = {} THEN got.outcome = "not_found"
        ELSE /\ got.outcome = "ok"
             /\ got.conversation =
                    convs[Len(convs) + 1 - (CHOOSE i \in sat : \A j \in sat : i <= j)]

\* C14: on every log the commands leave, for every offset, search term and
\* tag, get_logged_conversation returns the entry with the smallest offset
\* among those satisfying all the filters given, and ends with Not-Found when
\* no entry satisfies them, an offset beyond the number of entries included;
\* it never returns an entry that fails a filter given.
C14_SelectMostRecent ==
    VersionTagged(log) =>
        \A now \in Times, offset \in SelectOffsets,
           search \in SearchTerms, tag \in SearchTags :
            SelectsMostRecent(
                get_logged_conversation(log, backup, now, offset[2], search, tag),
                conversation_log(log, backup, now).convs,
                IF offset[1] THEN {offset[2]} ELSE {}, search, tag)

\* The same for the offsets from 1 on the logs where every entry has a
\* message.
SelectMostRecentOnQuestions ==
    (VersionTagged(log) /\ \A i \in 2..Len(log.lines) : Len(log.lines[i].messages.l) > 0) =>
        \A now \in Times, offset \in SelectOffsets \ {<<TRUE, 0>>},
           search \in SearchTerms, tag \in SearchTags :
            SelectsMostRecent(
                get_logged_conversation(log, backup, now, offset[2], search, tag),
                conversation_log(log, backup, now).convs,
                IF offset[1] THEN {offset[2]} ELSE {}, search, tag)


\* The filters given with the shorthand p added, and with none
WithPersonality(kw, p) == [kw EXCEPT !.select_personality = p]

\* What the user of a selecting command sees of its selection
Selected(sel) == <<sel.outcome, sel.conversation>>
Shown(res) == <<res.outcome, res.shown>>

\* The filters of the commands that select one conversation (offset 0: none)
\* and of those that filter the log
SelectionFilters ==
    {Kw(f[1], f[2], f[3], FALSE, <<>>, FALSE) :
        f \in {<<0, <<>>, <<>> >>, <<2, <<>>, <<>> >>, <<0, <<"q">>, <<>> >>,
               <<0, <<>>, <<"t">> >>, <<2, <<>>, <<"t">> >>}}
LogFilters ==
    {[offsets |-> f[1], search |-> f[2], tag |-> f[3], select_personality |-> <<>>] :
        f \in {<<{}, <<>>, <<>> >>, <<{2}, <<>>, <<>> >>, <<{}, <<"q">>, <<>> >>,
               <<{}, <<>>, <<"t">> >>, <<{1, 2}, <<>>, <<"t">> >>}}

\* With --personality p, a command that selects one conversation selects what
\* it selects without the option whenever an offset, a search term or a tag
\* is given, and otherwise what it selects with the tag "^p".
ShorthandOfSelectConversation ==
    VersionTagged(log) =>
        \A now \in Times, kw \in SelectionFilters, p \in Personalities :
            Selected(select_conversation(log, backup, now, WithPersonality(kw, p))) =
            Selected(select_conversation(log, backup, now,
                        IF kw.offset # 0 \/ kw.search # <<>> \/ kw.tag # <<>>
                        THEN kw ELSE [kw EXCEPT !.tag = <<"^">> \o p]))

\* C15: in the commands that select one conversation and in those that
\* filter the log, the personality shorthand becomes a "^"-prefixed tag
\* filter only when no offset (or offsets), search term or tag is given;
\* whenever one of the three is given the command selects what it selects
\* without the shorthand.
C15_PersonalityShorthand ==
    VersionTagged(log) =>
        \A now \in Times, p \in Personalities :
            /\ \A kw \in SelectionFilters :
                  Selected(select_conversation(log, backup, now, WithPersonality(kw, p))) =
                  Selected(select_conversation(log, backup, now,
                              IF kw.offset # 0 \/ kw.search # <<>> \/ kw.tag # <<>>
                              THEN kw ELSE [kw EXCEPT !.tag = <<"^">> \o p]))
            /\ \A kw \in LogFilters, json \in BOOLEAN :
                  Shown(log_command(log, backup, now,
                            [kw |-> WithPersonality(kw, p), limit |-> NoLimit,
                             format_json |-> json])) =
                  Shown(log_command(log, backup, now,
                            [kw |-> IF kw.offsets # {} \/ kw.search # <<>> \/ kw.tag # <<>>
                                    THEN kw ELSE [kw EXCEPT !.tag = <<"^">> \o p],
                             limit |-> NoLimit, format_json |-> json]))


----------------------------------------------------------------------------
(* Properties of the migration's timestamps *)

\* The completion of a legacy entry, or its legacy response
CompletionOrResponse(data) ==
    IF GetD(data.completion).t # "null" THEN data.completion ELSE GetD(data.response)

\* The timestamp the migration is to give an entry that has none: the
\* creation time of its completion when there is one, else the current time.
Backfilled(data, now) ==
    IF CompletionOrResponse(data).t = "dict" /\ Has(CompletionOrResponse(data).d, "created")
    THEN Iso(Get(CompletionOrResponse(data).d, "created"))
    ELSE Iso(now)

\* C17: the migration of a legacy log whose entries pass the structural
\* checks ends well and leaves every entry that had no timestamp with one:
\* the creation time of its completion (or legacy response) when there is
\* one, and the current time otherwise, without a completion as well as with
\* a completion that carries no creation time.
C17_TimestampBackfill ==
    (log.exists /\ Len(log.lines) > 0 /\ ~VersionTagged(log) /\ ~Corrupt(log)) =>
        \A now \in Times :
            Let(conversation_log(log, backup, now),
                LAMBDA read :
                    /\ read.ok
                    /\ read.migrated
                    /\ \A i \in 1..Len(log.lines) :
                          GetT(log.lines[i].timestamp).t = "null" =>
                              read.file.lines[i + 1].timestamp =
                                  Backfilled(log.lines[i], now))

\* The same on the legacy logs where every completion carries a creation
\* time.
TimestampBackfillOfCreated ==
    (log.exists /\ Len(log.lines) > 0 /\ ~VersionTagged(log) /\ ~Corrupt(log)
        /\ \A i \in 1..Len(log.lines) :
              CompletionOrResponse(log.lines[i]).t = "dict" =>
                  Has(CompletionOrResponse(log.lines[i]).d, "created")) =>
        \A now \in Times :
            Let(conversation_log(log, backup, now),
                LAMBDA read :
                    /\ read.ok
                    /\ read.migrated
                    /\ \A i \in 1..Len(log.lines) :
                          GetT(log.lines[i].timestamp).t = "null" =>
                              read.file.lines[i + 1].timestamp =
                                  Backfilled(log.lines[i], now))


----------------------------------------------------------------------------
(* Properties of find_log *)

\* The nearest directory, among d and the directories above it, that holds
\* an entry named CHAT_LOG; 0 when none does
RECURSIVE NearestLog(_, _)
NearestLog(entries, d) ==
    IF d = 0 THEN 0
    ELSE IF entries[d].kind # "none" THEN d
    ELSE NearestLog(entries, Parent[d])

\* What find_log is to give
LogFound(entries, start_dir, is_dir, found) ==
    IF ~is_dir THEN found = [kind |-> "given", dir |-> start_dir]
    ELSE IF NearestLog(entries, start_dir) = 0
         THEN found.kind = "FileNotFoundError"
         ELSE found = [kind |-> "log", dir |-> NearestLog(entries, start_dir)]

\* C18: find_log given a directory returns the log file of the nearest
\* directory, among that directory and its ancestors up to the root, that
\* contains the conventionally named file, and fails with FileNotFoundError
\* when none of them does; given a path that is not a directory it returns
\* that path.
C18_FindLog ==
    lookup.found # NotSearched =>
        LogFound(lookup.entries, lookup.start, lookup.is_dir, lookup.found)

\* The same when the log of the starting directory is no symbolic link.
FindLogWithoutLink ==
    (lookup.found # NotSearched /\ lookup.entries[lookup.start].kind # "link") =>
        LogFound(lookup.entries, lookup.start, lookup.is_dir, lookup.found)


----------------------------------------------------------------------------
(* Properties of re-initialization, of the migrating read and of usage *)

\* C22: init --reinit on a log file that exists keeps every line of it,
\* header and entries, unchanged and in place, and appends after them one
\* entry for each bundled default conversation in the order of the bundle, so
\* that the defaults have the offsets 1 to their number, the last of the
\* bundle the offset 1; the file is never truncated or created anew.
C22_ReinitAppends ==
    [][(log.exists /\ last'.cmd = "init") =>
          /\ IsPrefix(log.lines, log'.lines)
          /\ Len(log'.lines) = Len(log.lines) + Len(DefaultLog)
          /\ \A k \in 1..Len(DefaultLog) :
                /\ log'.lines[Len(log.lines) + k].messages = DefaultLog[k].messages
                /\ log'.lines[Len(log.lines) + k].tags = DefaultLog[k].tags
          /\ VersionTagged(log) =>
                \A now \in Times :
                    Let(search_conversations(conversation_log(log', backup', now).convs,
                                             {}, <<>>, <<>>).items,
                        LAMBDA items :
                            \A k \in 1..Len(DefaultLog) :
                                /\ items[k][1] = k
                                /\ items[k][2].messages =
                                      DefaultLog[Len(DefaultLog) + 1 - k].messages)]_vars

C22_Witness ==
    /\ last.cmd = "init"
    /\ VersionTagged(log)
    /\ Len(log.lines) = 1 + 2 * Len(DefaultLog)


\* C23: when a step migrates a legacy log, the conversations its read
\* returned are, entry by entry and field by field, those the next read
\* returns for the same entries of the migrated file, and that read migrates
\* nothing.
C23_MigratingReadSameHistory ==
    [][(log.exists /\ Len(log.lines) > 0 /\ ~VersionTagged(log) /\ VersionTagged(log')) =>
          \A now \in Times :
              Let(conversation_log(log, backup, now),
                  LAMBDA read :
                      Let(conversation_log(log', backup', now + 1),
                          LAMBDA next :
                              /\ read.ok /\ read.migrated
                              /\ next.ok /\ ~next.migrated
                              /\ next.file = log'
                              /\ Len(next.convs) >= Len(read.convs)
                              /\ SubSeq(next.convs, 1, Len(read.convs)) = read.convs
                              /\ (last'.cmd = "tags" => next.convs = read.convs)))]_vars

C23_Witness ==
    /\ last.cmd = "tags"
    /\ backup.exists
    /\ Len(backup.lines) >= 2
    /\ Len(log.lines) = 1 + Len(backup.lines)
    /\ \E i \in 1..Len(backup.lines) :
          /\ backup.lines[i].usage.t = "dict"
          /\ Has(backup.lines[i].usage.d, "request_tokens")
          /\ backup.lines[i].timestamp.t = "absent"
          /\ log.lines[i + 1].timestamp.t = "str"


\* The lines a step appended
NewLines == SubSeq(log'.lines, (IF log.exists THEN Len(log.lines) ELSE 1) + 1,
                   Len(log'.lines))

NoCompletionCommands == {"add", "edit", "drop", "merge", "tag", "untag", "init"}

\* C24: on a version-tagged log (and when init creates the log) every entry
\* appended by add, edit, drop, merge, tag, untag and init has null usage and
\* null completion, whatever the conversation it was loaded from had; the
\* entries a step appends with usage are as many as the completions the
\* command performed, each with the completion and the usage of one
\* completion alone (prompt tokens over the messages before its reply), so
\* the usage total counts each completion once.
C24_UsageOnlyFromCompletions ==
    [][(~log.exists \/ VersionTagged(log)) =>
          /\ last'.cmd \in NoCompletionCommands =>
                \A k \in 1..Len(NewLines) :
                    NewLines[k].usage = NullD /\ NewLines[k].completion = NullD
          /\ Cardinality({k \in 1..Len(NewLines) : NewLines[k].usage # NullD})
                = last'.completed
          /\ \A k \in 1..Len(NewLines) :
                NewLines[k].usage # NullD =>
                    LET messages == NewLines[k].messages.l
                    IN  /\ NewLines[k].completion.t = "dict"
                        /\ messages[Len(messages)].role = "assistant"
                        /\ NewLines[k].usage =
                              completion_usage(SubSeq(messages, 1, Len(messages) - 1),
                                               messages[Len(messages)].content)]_vars

\* A command without completion appended an entry for a conversation that had
\* usage, after a command that performed two completions.
C24_Witness ==
    /\ VersionTagged(log)
    /\ last.cmd \in {"tag", "untag", "add", "edit", "drop"}
    /\ Len(log.lines) >= 4
    /\ log.lines[Len(log.lines)].usage = NullD
    /\ log.lines[Len(log.lines) - 1].usage # NullD

C24_WitnessTwoCompletions ==
    /\ last.cmd = "answer"
    /\ last.completed = 2


----------------------------------------------------------------------------
(* Properties of the independence of clones *)

\* C25: once c2 = c.clone() is made, whatever is done to c2 (a message
\* appended or popped, a completion, plugins extended, a tag added), the
\* messages, plugins and tags of c are as they were at the clone call.
C25_CloneIndependent ==
    objects.cloned # <<>> =>
        /\ ValueOf("source", objects).messages = objects.before[1].messages
        /\ ValueOf("source", objects).plugins = objects.before[1].plugins
        /\ ValueOf("source", objects).tags = objects.before[1].tags

\* The tags of the source are as they were at the clone call.
CloneKeepsSourceTags ==
    objects.cloned # <<>> =>
        ValueOf("source", objects).tags = objects.before[1].tags


----------------------------------------------------------------------------
(* Properties of two invocations on one log file *)

Finished == invocations # <<>> /\ \A p \in Procs : invocations[p].pc \in {"done", "raised"}

\* The entry p appended is a line of the log
Present(p) ==
    \E i \in 1..Len(log.lines) :
        /\ log.lines[i].messages = EntryOf(p).messages
        /\ log.lines[i].timestamp.t = "str"

\* C21: under every interleaving of two invocations on one log file, each a
\* read (which may migrate the log) followed by an append, once both have
\* finished every entry whose append completed is a line of the file.
C21_NoAppendLost ==
    Finished => \A p \in Procs : invocations[p].pc = "done" => Present(p)

\* The same when neither invocation migrated the log.
NoAppendLostWithoutMigration ==
    (Finished /\ \A p \in Procs : ~invocations[p].migrated) =>
        \A p \in Procs : invocations[p].pc = "done" => Present(p)

====
